---- MODULE Spec2Model ----
(***************************************************************************)
(* A model of the chess-diagram pipeline: the combinatorics engine         *)
(* (material_classes.count_diagrams), the class enumerator                 *)
(* (material_classes.generate_material_classes), the rule engine           *)
(* (rand_legal_pos.is_position_legal), the board synthesizer               *)
(* (rand_legal_pos.random_board_from_material) and the estimator           *)
(* (simulate_legality).                                                    *)
(*                                                                         *)
(* Python integers are unbounded and numpy integers are 64 bits wide, so   *)
(* numbers that can leave 31 bits are kept as sequences of base-256 limbs, *)
(* least significant limb first.                                           *)
(***************************************************************************)
EXTENDS Integers, Sequences, FiniteSets, TLC

VARIABLES cd, gen, pos, smp, est, co, mg, an, syn

vars == <<cd, gen, pos, smp, est, co, mg, an, syn>>

\* a component that takes no part in the run at hand
Idle == [pc |-> "idle"]

(***************************************************************************)
(* Sequencing.  Then(x, F) is F(x) with x evaluated first: the loops below *)
(* run over halves of their range and hand the state of the first half to  *)
(* the second as a value.                                                  *)
(***************************************************************************)
Then(x, F(_)) == CHOOSE res \in {F(v) : v \in {x}} : TRUE

(***************************************************************************)
(* Unbounded naturals: base-256 limbs, least significant first, no         *)
(* trailing zero limb (zero is the empty sequence).                        *)
(***************************************************************************)
RECURSIVE BigNorm(_)
BigNorm(a) ==
    IF a = <<>> THEN <<>>
    ELSE IF a[Len(a)] = 0 THEN BigNorm(SubSeq(a, 1, Len(a) - 1))
    ELSE a

RECURSIVE BigOfInt(_)
BigOfInt(n) == IF n = 0 THEN <<>> ELSE <<n % 256>> \o BigOfInt(n \div 256)

Limb(a, i) == IF i <= Len(a) THEN a[i] ELSE 0

\* limbs lo..hi of a * k (lo <= hi), given the limbs below and the carry
\* into limb lo
RECURSIVE MulRange(_, _, _, _, _)
MulRange(st, a, k, lo, hi) ==
    IF lo = hi
    THEN LET t == a[lo] * k + st.carry
         IN  [out |-> Append(st.out, t % 256), carry |-> t \div 256]
    ELSE Then(MulRange(st, a, k, lo, (lo + hi) \div 2),
              LAMBDA left : MulRange(left, a, k, (lo + hi) \div 2 + 1, hi))

\* a * k + carry, not normalised, for a machine-size k (255 * k + carry must
\* stay below 2^31)
BigMulAdd(a, k, carry) ==
    IF a = <<>> THEN BigOfInt(carry)
    ELSE LET st == MulRange([out |-> <<>>, carry |-> carry], a, k, 1, Len(a))
         IN  st.out \o BigOfInt(st.carry)

BigMulSmall(a, k) ==
    IF a = <<>> \/ k = 0 THEN <<>> ELSE BigNorm(BigMulAdd(a, k, 0))

\* a + k for a machine-size k
BigAddSmall(a, k) == IF k = 0 THEN a ELSE BigNorm(BigMulAdd(a, 1, k))

\* -1, 0, 1 as a < b, a = b, a > b (both normalised)
BigCmp(a, b) ==
    IF Len(a) < Len(b) THEN -1
    ELSE IF Len(a) > Len(b) THEN 1
    ELSE LET differ == {i \in 1..Len(a) : a[i] /= b[i]}
         IN  IF differ = {} THEN 0
             ELSE LET top == CHOOSE i \in differ : \A j \in differ : j <= i
                  IN  IF a[top] < b[top] THEN -1 ELSE 1

\* limbs lo..hi of a - b (lo <= hi), given the limbs below and the borrow
\* into limb lo
RECURSIVE SubRange(_, _, _, _, _)
SubRange(st, a, b, lo, hi) ==
    IF lo = hi
    THEN LET t == a[lo] - Limb(b, lo) - st.borrow
         IN  IF t < 0 THEN [out |-> Append(st.out, t + 256), borrow |-> 1]
             ELSE [out |-> Append(st.out, t), borrow |-> 0]
    ELSE Then(SubRange(st, a, b, lo, (lo + hi) \div 2),
              LAMBDA left : SubRange(left, a, b, (lo + hi) \div 2 + 1, hi))

\* a - b for a >= b
BigSub(a, b) ==
    IF b = <<>> THEN a
    ELSE BigNorm(SubRange([out |-> <<>>, borrow |-> 0], a, b, 1, Len(a)).out)

\* the largest q among base, base + step, base + 2 * step, base + 3 * step
\* with d * q <= r, given d * base <= r
QuoSearch(r, d, base, step) ==
    IF BigCmp(BigMulSmall(d, base + 2 * step), r) <= 0
    THEN IF BigCmp(BigMulSmall(d, base + 3 * step), r) <= 0
         THEN base + 3 * step ELSE base + 2 * step
    ELSE IF BigCmp(BigMulSmall(d, base + step), r) <= 0
         THEN base + step ELSE base

\* the largest q in 0..255 with d * q <= r
QuoDigit(r, d) ==
    Then(Then(Then(QuoSearch(r, d, 0, 64),
                   LAMBDA q : QuoSearch(r, d, q, 16)),
              LAMBDA q : QuoSearch(r, d, q, 4)),
         LAMBDA q : QuoSearch(r, d, q, 1))

\* one step of the long division by d > 0: the next limb of the dividend is
\* brought down to the running remainder st.r, and the quotient's limb put
\* before those found so far, st.q
DivStep(st, limb, d) ==
    Then(BigNorm(<<limb>> \o st.r),
         LAMBDA cur :
            Then(QuoDigit(cur, d),
                 LAMBDA dig : [q |-> <<dig>> \o st.q,
                               r |-> BigSub(cur, BigMulSmall(d, dig))]))

\* the long division over the limbs a[hi] down to a[lo] (lo <= hi)
RECURSIVE DivRange(_, _, _, _, _)
DivRange(st, a, d, lo, hi) ==
    IF lo = hi THEN DivStep(st, a[lo], d)
    ELSE Then(DivRange(st, a, d, (lo + hi) \div 2 + 1, hi),
              LAMBDA upper : DivRange(upper, a, d, lo, (lo + hi) \div 2))

\* [q |-> a \div d, r |-> a % d] for d > 0
BigDivMod(a, d) ==
    IF a = <<>> THEN [q |-> <<>>, r |-> <<>>]
    ELSE LET st == DivRange([q |-> <<>>, r |-> <<>>], a, d, 1, Len(a))
         IN  [q |-> BigNorm(st.q), r |-> st.r]

\* acc * low * (low + 1) * ... * high for machine-size factors (low <= high)
RECURSIVE BigMulRange(_, _, _)
BigMulRange(acc, low, high) ==
    IF low = high THEN BigMulSmall(acc, low)
    ELSE Then(BigMulRange(acc, low, (low + high) \div 2),
              LAMBDA left : BigMulRange(left, (low + high) \div 2 + 1, high))

(***************************************************************************)
(* Signed Python integers: [neg |-> sign, mag |-> limbs of |x|].           *)
(***************************************************************************)
IntPos(mag) == [neg |-> FALSE, mag |-> mag]

\* Python's floor division of num >= 0 by a signed den /= 0
FloorDiv(num, den) ==
    LET dm == BigDivMod(num, den.mag)
    IN  IF ~den.neg THEN IntPos(dm.q)
        ELSE IF dm.r = <<>> THEN [neg |-> dm.q /= <<>>, mag |-> dm.q]
        ELSE [neg |-> TRUE, mag |-> BigAddSmall(dm.q, 1)]

(***************************************************************************)
(* numpy int64: an 8-limb two's complement word.                           *)
(***************************************************************************)
Word64(a) ==
    <<Limb(a, 1), Limb(a, 2), Limb(a, 3), Limb(a, 4),
      Limb(a, 5), Limb(a, 6), Limb(a, 7), Limb(a, 8)>>

\* the value of an int64 word as a Python integer (int(np.int64))
TwoPow64 == <<0, 0, 0, 0, 0, 0, 0, 0, 1>>

Int64ToInt(w) ==
    IF w[8] >= 128 THEN [neg |-> TRUE, mag |-> BigSub(TwoPow64, BigNorm(w))]
    ELSE IntPos(BigNorm(w))

\* int64 multiplication, wrapping modulo 2^64
Int64Mul(w, k) == Then(BigMulAdd(w, k, 0), LAMBDA product : Word64(product))

(***************************************************************************)
(* Material compositions: one count per piece code, in the key order of    *)
(* the dictionaries the enumerator builds.                                 *)
(***************************************************************************)
Pieces == <<"K", "Q", "R", "B", "N", "P">>

Material(k, q, r, b, n, p) ==
    [K |-> k, Q |-> q, R |-> r, B |-> b, N |-> n, P |-> p]

\* dict.values(): the counts in key order
Values(m) == <<m.K, m.Q, m.R, m.B, m.N, m.P>>

RECURSIVE SumSeq(_)
SumSeq(s) == IF s = <<>> THEN 0 ELSE Head(s) + SumSeq(Tail(s))

StandardLimits == Material(1, 1, 2, 2, 2, 8)

PromotionLimits == Material(1, 9, 10, 10, 10, 8)

(***************************************************************************)
(* material_classes.count_diagrams                                         *)
(***************************************************************************)
\* math.factorial, for arguments whose factorial is machine-size
RECURSIVE Factorial(_)
Factorial(c) == IF c <= 1 THEN 1 ELSE c * Factorial(c - 1)

\* math.perm(n, k) = n * (n-1) * ... * (n-k+1), and 0 when k > n
factorial_division(n, k) ==
    IF k > n THEN <<>>
    ELSE IF k = 0 THEN <<1>>
    ELSE BigMulRange(<<1>>, n - k + 1, n)

\* np.prod over the factorials of the counts ic[lo..hi] (lo <= hi),
\* continuing from the int64 accumulator acc
RECURSIVE NpProdRange(_, _, _, _)
NpProdRange(acc, ic, lo, hi) ==
    IF lo = hi THEN Int64Mul(acc, Factorial(ic[lo]))
    ELSE Then(NpProdRange(acc, ic, lo, (lo + hi) \div 2),
              LAMBDA left : NpProdRange(left, ic, (lo + hi) \div 2 + 1, hi))

\* np.prod([math.factorial(c) for c in ic]) for a non-empty ic: the
\* accumulator starts at 1
NpProd(ic) == NpProdRange(Word64(<<1>>), ic, 1, Len(ic))

IdenticalWhiteOnly(white, black) == SelectSeq(Values(white), LAMBDA c : c > 1)

identical_counts(white, black) ==
    SelectSeq(Values(white) \o Values(black), LAMBDA c : c > 1)

Denominator(ic) ==
    IF ic /= <<>>
    THEN Int64ToInt(NpProd(ic))
    ELSE IntPos(<<1>>)

\* the values count_diagrams computes; raised is "ZeroDivisionError" when
\* the division raises, and then there is no result
count_diagrams(white, black) ==
    LET total       == SumSeq(Values(white)) + SumSeq(Values(black))
        ic          == identical_counts(white, black)
        numerator   == factorial_division(64, total)
        denominator == Denominator(ic)
    IN  [total |-> total, identical_counts |-> ic,
         numerator |-> numerator, denominator |-> denominator,
         raised |-> IF denominator.mag = <<>> THEN "ZeroDivisionError"
                    ELSE "none",
         result |-> IF denominator.mag = <<>> THEN IntPos(<<>>)
                    ELSE FloorDiv(numerator, denominator)]

(***************************************************************************)
(* The compositions count_diagrams is applied to: every count within the   *)
(* limits of its profile and at most 32 pieces in all, the counts lying at *)
(* an end of their range but for MaxDev steps in total.                    *)
(***************************************************************************)
MaxDev == 1

Min(a, b) == IF a < b THEN a ELSE b

Dev(m, limits) ==
    SumSeq(<<Min(m.Q, limits.Q - m.Q), Min(m.R, limits.R - m.R),
             Min(m.B, limits.B - m.B), Min(m.N, limits.N - m.N),
             Min(m.P, limits.P - m.P)>>)

NearEnd(lim) == {c \in 0..lim : Min(c, lim - c) <= MaxDev}

Sides(limits) ==
    {s \in [K : {1}, Q : NearEnd(limits.Q), R : NearEnd(limits.R),
            B : NearEnd(limits.B), N : NearEnd(limits.N), P : NearEnd(limits.P)] :
        Dev(s, limits) <= MaxDev}

Profiles == {StandardLimits, PromotionLimits}

CountInit ==
    \E limits \in Profiles :
        \E w \in Sides(limits) :
            \E b \in Sides(limits) :
                /\ Dev(w, limits) + Dev(b, limits) <= MaxDev
                /\ SumSeq(Values(w)) + SumSeq(Values(b)) <= 32
                /\ cd = [pc |-> "call", limits |-> limits, white |-> w, black |-> b]
                /\ gen = Idle
                /\ pos = Idle
                /\ smp = Idle
                /\ est = Idle
                /\ co = Idle
                /\ mg = Idle
                /\ an = Idle
                /\ syn = Idle

CountDiagrams ==
    /\ cd.pc = "call"
    /\ cd' = [pc |-> "done", limits |-> cd.limits, white |-> cd.white,
              black |-> cd.black, out |-> count_diagrams(cd.white, cd.black)]
    /\ UNCHANGED <<gen, pos, smp, est, co, mg, an, syn>>

CountNext == CountDiagrams

SpecCount == CountInit /\ [][CountNext]_vars

(***************************************************************************)
(* C1, C2: the diagram count against the closed form.                      *)
(***************************************************************************)
\* 64 * 63 * ... * (64 - total + 1)
FallingFactorial(total) ==
    IF total = 0 THEN <<1>> ELSE BigMulRange(<<1>>, 64 - total + 1, 64)

\* x times c! for every count c > 1 among counts[lo..hi]
RECURSIVE TimesFactorialsRange(_, _, _, _)
TimesFactorialsRange(x, counts, lo, hi) ==
    IF lo = hi
    THEN IF counts[lo] > 1 THEN BigMulSmall(x, Factorial(counts[lo])) ELSE x
    ELSE Then(TimesFactorialsRange(x, counts, lo, (lo + hi) \div 2),
              LAMBDA left :
                TimesFactorialsRange(left, counts, (lo + hi) \div 2 + 1, hi))

\* x times c! for every count c > 1 of either side
TimesFactorials(x, white, black) ==
    TimesFactorialsRange(x, Values(white) \o Values(black), 1, 12)

PieceTotal(white, black) == SumSeq(Values(white)) + SumSeq(Values(black))

NoCountAboveOne(white, black) ==
    \A i \in 1..6 : white[Pieces[i]] <= 1 /\ black[Pieces[i]] <= 1

\* C1: within the standard limits, count_diagrams(white, black) is the
\* falling factorial 64*63*...*(64-total+1) divided, exactly, by the product
\* of c! over every count c > 1 of either side; it is P(64, total) itself when
\* no count exceeds 1, and 249984 for K+Q against K.
C1_CountIsClosedForm ==
    (cd.pc = "done" /\ cd.limits = StandardLimits) =>
        LET total == PieceTotal(cd.white, cd.black)
            falling == FallingFactorial(total)
        IN  /\ cd.out.raised = "none"
            /\ ~cd.out.result.neg
            /\ TimesFactorials(cd.out.result.mag, cd.white, cd.black) = falling
            /\ NoCountAboveOne(cd.white, cd.black) => cd.out.result.mag = falling
            /\ (cd.white = Material(1, 1, 0, 0, 0, 0)
                    /\ cd.black = Material(1, 0, 0, 0, 0, 0))
                => cd.out.result = IntPos(BigOfInt(249984))

\* rooks and pawns against knights and pawns: groups of identical pieces on
\* both sides
C1_Witness ==
    /\ cd.pc = "done"
    /\ cd.limits = StandardLimits
    /\ cd.white = Material(1, 0, 2, 0, 0, 8)
    /\ cd.black = Material(1, 0, 0, 0, 2, 8)
    /\ cd.out.identical_counts = <<2, 8, 2, 8>>
    /\ cd.out.total = 22

\* C2: for every composition of the promotion-extended profile (total at
\* most 32) the denominator is the true product of the factorials, it
\* divides the numerator with no remainder, and the result is positive.
C2_NoWrapExactPositive ==
    (cd.pc = "done" /\ cd.limits = PromotionLimits) =>
        LET trueDen == TimesFactorials(<<1>>, cd.white, cd.black)
        IN  /\ cd.out.denominator = IntPos(trueDen)
            /\ cd.out.raised = "none"
            /\ ~cd.out.result.neg
            /\ cd.out.result.mag /= <<>>
            /\ TimesFactorials(cd.out.result.mag, cd.white, cd.black)
                   = cd.out.numerator

(***************************************************************************)
(* generate_material_classes: the loop over itertools.product of the side  *)
(* materials, one step per pair.  The run is followed for MaxIter pairs.   *)
(***************************************************************************)
\* an optional argument: None is the empty sequence, a value v is <<v>>
None == <<>>

Some(v) == <<v>>

\* limits a caller passes: the test profile and one whose pawn range makes
\* the total filter act
TestLimits == Material(1, 1, 1, 0, 0, 1)

PawnLimits == Material(1, 0, 0, 0, 0, 16)

MaxClasses == 85

MaxIter == 300

\* the limits in force: the default for None, overridden by allow_promotions
EffectiveLimits(limits, allow_promotions) ==
    IF allow_promotions THEN PromotionLimits
    ELSE IF limits = None THEN StandardLimits
    ELSE limits[1]

\* variant of the definition below
NumSidesShort(limits) ==
    (limits.Q + 1) * (limits.R + 1) * (limits.B + 1) * (limits.N + 1)
        * (limits.P + 1) - 1

\* len(all_side_materials())
NumSides(limits) ==
    (limits.Q + 1) * (limits.R + 1) * (limits.B + 1) * (limits.N + 1)
        * (limits.P + 1)

\* all_side_materials()[i], i from 0: q is the outermost loop, p the
\* innermost, and the king count is the literal 1
all_side_materials(limits, i) ==
    LET p == i % (limits.P + 1)
        i1 == i \div (limits.P + 1)
        n == i1 % (limits.N + 1)
        i2 == i1 \div (limits.N + 1)
        b == i2 % (limits.B + 1)
        i3 == i2 \div (limits.B + 1)
        r == i3 % (limits.R + 1)
        q == i3 \div (limits.R + 1)
    IN  Material(1, q, r, b, n, p)

GenInit ==
    \E limits \in {None, Some(TestLimits), Some(PawnLimits)} :
        \E allow_promotions \in BOOLEAN :
            \E max_classes \in {None, Some(1), Some(MaxClasses)} :
                /\ gen = [pc |-> "loop",
                          limits |-> EffectiveLimits(limits, allow_promotions),
                          max_classes |-> max_classes,
                          wi |-> 0, bi |-> 0, iter |-> 0, classes |-> <<>>]
                /\ cd = Idle
                /\ pos = Idle
                /\ smp = Idle
                /\ est = Idle
                /\ co = Idle
                /\ mg = Idle
                /\ an = Idle
                /\ syn = Idle

\* one pass through the body of "for w, b in itertools.product(...)", and the
\* return when the break is taken or the product is exhausted
GenStep ==
    /\ gen.pc = "loop"
    /\ gen.iter < MaxIter
    /\ LET w == all_side_materials(gen.limits, gen.wi)
           b == all_side_materials(gen.limits, gen.bi)
           total == SumSeq(Values(w)) + SumSeq(Values(b))
           classes == IF total <= 32
                      THEN Append(gen.classes, [white |-> w, black |-> b])
                      ELSE gen.classes
           break == /\ total <= 32
                    /\ gen.max_classes /= None
                    /\ Len(classes) >= gen.max_classes[1]
           last == gen.bi + 1 = NumSides(gen.limits)
           exhausted == last /\ gen.wi + 1 = NumSides(gen.limits)
       IN  gen' = [gen EXCEPT
                     !.classes = classes,
                     !.iter = @ + 1,
                     !.pc = IF break \/ exhausted THEN "done" ELSE "loop",
                     !.bi = IF break \/ exhausted THEN @
                            ELSE IF last THEN 0 ELSE @ + 1,
                     !.wi = IF break \/ exhausted THEN @
                            ELSE IF last THEN @ + 1 ELSE @]
    /\ UNCHANGED <<cd, pos, smp, est, co, mg, an, syn>>

GenNext == GenStep

SpecGen == GenInit /\ [][GenNext]_vars

(***************************************************************************)
(* C3: the classes of the two profiles.                                    *)
(***************************************************************************)
SideTotal(m) == m.K + m.Q + m.R + m.B + m.N + m.P

WithinLimits(m, limits) ==
    /\ m.Q <= limits.Q /\ m.R <= limits.R /\ m.B <= limits.B
    /\ m.N <= limits.N /\ m.P <= limits.P

ClassRespectsCaps(c, limits) ==
    /\ SideTotal(c.white) + SideTotal(c.black) \in 2..32
    /\ SideTotal(c.white) <= 16
    /\ SideTotal(c.black) <= 16
    /\ c.white.K = 1
    /\ c.black.K = 1
    /\ WithinLimits(c.white, limits)
    /\ WithinLimits(c.black, limits)

\* C3: every class generate_material_classes has emitted under the standard
\* or the promotion profile has 2 to 32 pieces in total, at most 16 pieces
\* on each side, exactly one king on each side, and every count within the
\* profile's limit.
C3_ClassesRespectCaps ==
    (gen.pc /= "idle" /\ gen.limits \in Profiles) =>
        \A i \in 1..Len(gen.classes) :
            ClassRespectsCaps(gen.classes[i], gen.limits)

(***************************************************************************)
(* Boards.  A square is 0..63 as in the chess library (a1 = 0, h8 = 63), a *)
(* piece is <<type, color>>, an empty square is <<>>.                      *)
(***************************************************************************)
WHITE == "w"

BLACK == "b"

SQUARES == 0..63

square(file, rank) == rank * 8 + file

square_file(sq) == sq % 8

square_rank(sq) == sq \div 8

Piece(type, color) == <<type, color>>

\* chess.Board(None)
EmptyBoard == [sq \in SQUARES |-> <<>>]

set_piece_at(board, sq, piece) == [board EXCEPT ![sq] = piece]

\* set_piece_at for every square of a set
set_pieces_at(board, squares, piece) ==
    [sq \in SQUARES |-> IF sq \in squares THEN piece ELSE board[sq]]

\* board.pieces(type, color)
pieces(board, type, color) == {sq \in SQUARES : board[sq] = Piece(type, color)}

occupied_co(board, color) ==
    {sq \in SQUARES : board[sq] /= <<>> /\ board[sq][2] = color}

Abs(x) == IF x < 0 THEN -x ELSE x

Sign(x) == IF x < 0 THEN -1 ELSE IF x > 0 THEN 1 ELSE 0

Max(a, b) == IF a > b THEN a ELSE b

\* the squares strictly between two squares of one rank, file or diagonal
between(s, t) ==
    LET df == square_file(t) - square_file(s)
        dr == square_rank(t) - square_rank(s)
    IN  {square(square_file(s) + i * Sign(df), square_rank(s) + i * Sign(dr)) :
            i \in 1..(Max(Abs(df), Abs(dr)) - 1)}

\* the piece on s attacks the square t
attacks(board, s, t) ==
    LET p == board[s]
        df == square_file(t) - square_file(s)
        dr == square_rank(t) - square_rank(s)
        clear == \A m \in between(s, t) : board[m] = <<>>
        diagonal == Abs(df) = Abs(dr) /\ df /= 0
        straight == (df = 0) /= (dr = 0)
    IN  /\ p /= <<>>
        /\ CASE p[1] = "P" -> Abs(df) = 1 /\ dr = (IF p[2] = WHITE THEN 1 ELSE -1)
             [] p[1] = "N" -> {Abs(df), Abs(dr)} = {1, 2}
             [] p[1] = "K" -> Max(Abs(df), Abs(dr)) = 1
             [] p[1] = "B" -> diagonal /\ clear
             [] p[1] = "R" -> straight /\ clear
             [] p[1] = "Q" -> (diagonal \/ straight) /\ clear

\* board.attackers(color, t)
attackers(board, color, t) ==
    {s \in occupied_co(board, color) : attacks(board, s, t)}

Opponent(color) == IF color = WHITE THEN BLACK ELSE WHITE

\* board.king(color): the highest king square of the colour, None without one
king(board, color) ==
    LET kings == pieces(board, "K", color)
    IN  IF kings = {} THEN None
        ELSE Some(CHOOSE k \in kings : \A other \in kings : other <= k)

(***************************************************************************)
(* The validity oracle (chess.Board.status) as a set of flag names.  The   *)
(* boards of this program are built on chess.Board(None): white is to      *)
(* move, there are no castling rights and no en-passant square, so the     *)
(* flags about those never show.                                           *)
(***************************************************************************)
STATUS_VALID == {}

STATUS_PAWNS_ON_BACKRANK == {"PAWNS_ON_BACKRANK"}

\* the flags every version of the library derives from the occupancy
BaseFlags(board, turn) ==
    LET pawns == pieces(board, "P", WHITE) \cup pieces(board, "P", BLACK)
        kings == pieces(board, "K", WHITE) \cup pieces(board, "K", BLACK)
        their_king == king(board, Opponent(turn))
        flag(name, on) == IF on THEN {name} ELSE {}
    IN  flag("EMPTY", occupied_co(board, WHITE) \cup occupied_co(board, BLACK) = {})
        \cup flag("NO_WHITE_KING", pieces(board, "K", WHITE) = {})
        \cup flag("NO_BLACK_KING", pieces(board, "K", BLACK) = {})
        \cup flag("TOO_MANY_KINGS", Cardinality(kings) > 2)
        \cup flag("TOO_MANY_WHITE_PIECES", Cardinality(occupied_co(board, WHITE)) > 16)
        \cup flag("TOO_MANY_BLACK_PIECES", Cardinality(occupied_co(board, BLACK)) > 16)
        \cup flag("TOO_MANY_WHITE_PAWNS", Cardinality(pieces(board, "P", WHITE)) > 8)
        \cup flag("TOO_MANY_BLACK_PAWNS", Cardinality(pieces(board, "P", BLACK)) > 8)
        \cup flag("PAWNS_ON_BACKRANK", \E sq \in pawns : square_rank(sq) \in {0, 7})
        \cup flag("OPPOSITE_CHECK",
                  /\ their_king /= None
                  /\ attackers(board, turn, their_king[1]) /= {})

\* the pieces giving check to the side to move
checkers(board, turn) ==
    IF king(board, turn) = None THEN {}
    ELSE attackers(board, Opponent(turn), king(board, turn)[1])

\* the statuses board.status() can return: the flags about the number and
\* the alignment of the checkers differ between versions of the library
status(board, turn) ==
    {BaseFlags(board, turn) \cup more :
        more \in IF Cardinality(checkers(board, turn)) >= 2
                 THEN SUBSET {"TOO_MANY_CHECKERS", "IMPOSSIBLE_CHECK"}
                 ELSE {{}}}

(***************************************************************************)
(* rand_legal_pos.is_position_legal                                        *)
(***************************************************************************)
\* variants of the definitions below
IsValidStrict(st) == st = STATUS_VALID

MaxPawnPerFileRaised(no_promotion) == IF no_promotion THEN 7 ELSE 6

CheckBishopsWithAllPawns(no_promotion, num_pawns) == num_pawns = 8

NoneLight(bishops) ==
    ~(\E b \in bishops : (square_file(b) + square_rank(b)) % 2 = 0)

\* CustomBoard.is_valid_no_promotion on the status the oracle returned
is_valid_no_promotion(st) ==
    IF st = STATUS_VALID THEN TRUE
    ELSE IF (st \ STATUS_PAWNS_ON_BACKRANK) = STATUS_VALID THEN TRUE
    ELSE FALSE

\* board.is_valid()
is_valid(st) == st = STATUS_VALID

max_pawn_per_file(no_promotion) == IF no_promotion THEN 6 ELSE 5

\* pawns_by_file after the loop over board.pieces(chess.PAWN, color)
pawns_by_file(board, color) ==
    [f \in 0..7 |->
        Cardinality({sq \in pieces(board, "P", color) : square_file(sq) = f})]

check_bishop_colors(no_promotion, num_pawns) == no_promotion \/ num_pawns = 8

\* all(colors) or not any(colors) for the bishops' square colours
SameColors(bishops) ==
    LET colors == [b \in bishops |-> (square_file(b) + square_rank(b)) % 2 = 0]
    IN  (\A b \in bishops : colors[b]) \/ ~(\E b \in bishops : colors[b])

\* is_position_legal(board, no_promotion), st being what the oracle returns
is_position_legal(board, no_promotion, st) ==
    IF no_promotion /\ ~is_valid_no_promotion(st) THEN FALSE
    ELSE IF ~no_promotion /\ ~is_valid(st) THEN FALSE
    ELSE IF \E color \in {WHITE, BLACK} :
                \E f \in 0..7 :
                    pawns_by_file(board, color)[f] > max_pawn_per_file(no_promotion)
    THEN FALSE
    ELSE IF \E color \in {WHITE, BLACK} :
                LET bishops == pieces(board, "B", color)
                    num_pawns == Cardinality(pieces(board, "P", color))
                IN  /\ check_bishop_colors(no_promotion, num_pawns)
                    /\ Cardinality(bishops) >= 2
                    /\ SameColors(bishops)
    THEN FALSE
    ELSE TRUE

(***************************************************************************)
(* The positions is_position_legal is called on: kings on e1 and e8 or     *)
(* missing, pawns stacked on a file or lined up on a rank, one lone pawn   *)
(* on a back rank, and up to three bishops a side.  Black is placed after  *)
(* white and takes the square where the two meet.                          *)
(***************************************************************************)
Column(file, lo, hi) == {square(file, r) : r \in lo..hi}

Row(rank, n) == {square(f, rank) : f \in 0..(n - 1)}

\* a2..a7 up to length 6, a1..a7, seven or eight pawns on the second rank, a8
WhitePawnSets ==
    {Column(0, 1, k) : k \in 0..6} \cup {Column(0, 0, 6)}
        \cup {Row(1, 7), Row(1, 8)} \cup {{square(0, 7)}}

\* none, h1, h3..h7, h2..h7, h1..h7, eight pawns on the seventh rank
BlackPawnSets ==
    {{}, {square(7, 0)}, Column(7, 2, 6), Column(7, 1, 6), Column(7, 0, 6),
     Row(6, 8)}

\* c1 and e3 share a square colour, b5 has the other and looks at e8
WhiteBishopSets == SUBSET {square(2, 0), square(4, 2), square(1, 4)}

\* g4 and f5 share a square colour, b4 has the other and looks at e1
BlackBishopSets == SUBSET {square(1, 3), square(6, 3), square(5, 4)}

KingSets(sq) == {{}, {sq}}

BuildBoard(wk, bk, wp, bp, wb, bb) ==
    LET b1 == set_pieces_at(EmptyBoard, wp, Piece("P", WHITE))
        b2 == set_pieces_at(b1, wb, Piece("B", WHITE))
        b3 == set_pieces_at(b2, wk, Piece("K", WHITE))
        b4 == set_pieces_at(b3, bp, Piece("P", BLACK))
        b5 == set_pieces_at(b4, bb, Piece("B", BLACK))
    IN  set_pieces_at(b5, bk, Piece("K", BLACK))

LegalInit ==
    \E wk \in KingSets(square(4, 0)), bk \in KingSets(square(4, 7)) :
        \E wp \in WhitePawnSets, bp \in BlackPawnSets :
            \E wb \in WhiteBishopSets, bb \in BlackBishopSets :
                \E no_promotion \in BOOLEAN :
                    /\ pos = [pc |-> "call",
                              board |-> BuildBoard(wk, bk, wp, bp, wb, bb),
                              no_promotion |-> no_promotion]
                    /\ cd = Idle
                    /\ gen = Idle
                    /\ smp = Idle
                    /\ est = Idle
                    /\ co = Idle
                    /\ mg = Idle
                    /\ an = Idle
                    /\ syn = Idle

\* the call is_position_legal(board, no_promotion); the oracle is asked once
IsPositionLegal ==
    /\ pos.pc = "call"
    /\ \E st \in status(pos.board, WHITE) :
          pos' = [pc |-> "done", board |-> pos.board,
                  no_promotion |-> pos.no_promotion, status |-> st,
                  result |-> is_position_legal(pos.board, pos.no_promotion, st)]
    /\ UNCHANGED <<cd, gen, smp, est, co, mg, an, syn>>

LegalNext == IsPositionLegal

SpecLegal == LegalInit /\ [][LegalNext]_vars

(***************************************************************************)
(* C4 - C8: the three checks of the rule engine, stated on the occupancy.  *)
(***************************************************************************)
BaseCheckPasses(st, tolerate) ==
    IF tolerate THEN st \subseteq {"PAWNS_ON_BACKRANK"} ELSE st = {}

PawnsOnFile(board, color, f) ==
    Cardinality({r \in 0..7 : board[square(f, r)] = <<"P", color>>})

PawnCap(tolerate) == IF tolerate THEN 6 ELSE 5

PawnCapHolds(board, tolerate) ==
    \A color \in {WHITE, BLACK} :
        \A f \in 0..7 : PawnsOnFile(board, color, f) <= PawnCap(tolerate)

BishopSquares(board, color) == {sq \in SQUARES : board[sq] = <<"B", color>>}

PawnCount(board, color) ==
    Cardinality({sq \in SQUARES : board[sq] = <<"P", color>>})

OnOneSquareColour(squares) ==
    \A x \in squares :
        \A y \in squares :
            (square_file(x) + square_rank(x)) % 2
                = (square_file(y) + square_rank(y)) % 2

BishopRuleBroken(board, color, tolerate) ==
    /\ Cardinality(BishopSquares(board, color)) >= 2
    /\ OnOneSquareColour(BishopSquares(board, color))
    /\ tolerate \/ PawnCount(board, color) = 8

BishopRuleHolds(board, tolerate) ==
    \A color \in {WHITE, BLACK} : ~BishopRuleBroken(board, color, tolerate)

\* the two kings alone on e1 and e8
KingsOnly ==
    set_piece_at(set_piece_at(EmptyBoard, square(4, 0), Piece("K", WHITE)),
                 square(4, 7), Piece("K", BLACK))

\* C4: with no_promotion true, a position whose only oracle flag is pawns on
\* the back rank passes the base check (the other two checks alone decide
\* it), and any other flag rejects it; with no_promotion false, any flag,
\* the back-rank one included, rejects it.
C4_BaseCheckTolerance ==
    pos.pc = "done" =>
        /\ (pos.no_promotion /\ pos.status = {"PAWNS_ON_BACKRANK"}) =>
              pos.result = (PawnCapHolds(pos.board, TRUE)
                                /\ BishopRuleHolds(pos.board, TRUE))
        /\ (pos.no_promotion /\ pos.status \ {"PAWNS_ON_BACKRANK"} /= {}) =>
              pos.result = FALSE
        /\ (~pos.no_promotion /\ pos.status /= {}) => pos.result = FALSE

\* a black pawn on h1 beside the two kings is accepted with no_promotion true
C4_Witness ==
    /\ pos.pc = "done"
    /\ pos.no_promotion
    /\ pos.board = set_piece_at(KingsOnly, square(7, 0), Piece("P", BLACK))
    /\ pos.status = {"PAWNS_ON_BACKRANK"}
    /\ pos.result = TRUE

\* C5: a position in which some colour has more than 6 pawns on one file
\* (no_promotion true) or more than 5 (no_promotion false) is rejected; 7
\* pawns of one colour on a file are rejected under both settings.
C5_PawnFileCap ==
    pos.pc = "done" =>
        /\ ~PawnCapHolds(pos.board, pos.no_promotion) => pos.result = FALSE
        /\ (\E color \in {WHITE, BLACK} :
                \E f \in 0..7 : PawnsOnFile(pos.board, color, f) = 7)
              => pos.result = FALSE

\* seven white pawns a1..a7 beside the two kings, back-rank pawns tolerated:
\* the pawn rule alone rejects
C5_Witness ==
    /\ pos.pc = "done"
    /\ pos.no_promotion
    /\ pos.board = set_pieces_at(KingsOnly, Column(0, 0, 6), Piece("P", WHITE))
    /\ pos.status = {"PAWNS_ON_BACKRANK"}
    /\ pos.result = FALSE

\* C6: a position with both kings, nothing else wrong, and as many pawns of
\* one colour on a file as the cap itself is rejected: six white pawns
\* a2..a7 with no_promotion true, five white pawns a2..a6 with no_promotion
\* false.
C6_CapManyPawnsRejected ==
    pos.pc = "done" =>
        /\ (/\ pos.no_promotion
            /\ pos.board = set_pieces_at(KingsOnly, Column(0, 1, 6),
                                         Piece("P", WHITE)))
              => pos.result = FALSE
        /\ (/\ ~pos.no_promotion
            /\ pos.board = set_pieces_at(KingsOnly, Column(0, 1, 5),
                                         Piece("P", WHITE)))
              => pos.result = FALSE

\* C7: if a colour has at least two bishops, all on squares of one colour,
\* and no_promotion is true or that colour has exactly 8 pawns, the position
\* is rejected.
C7_BishopColourRule ==
    pos.pc = "done" =>
        \A color \in {WHITE, BLACK} :
            BishopRuleBroken(pos.board, color, pos.no_promotion)
                => pos.result = FALSE

\* eight white pawns on the second rank, white bishops on c1 and e3, the two
\* kings, no_promotion false: the bishop rule alone rejects
C7_Witness ==
    /\ pos.pc = "done"
    /\ ~pos.no_promotion
    /\ pos.board = set_pieces_at(
                      set_pieces_at(KingsOnly, Row(1, 8), Piece("P", WHITE)),
                      {square(2, 0), square(4, 2)}, Piece("B", WHITE))
    /\ pos.status = {}
    /\ pos.result = FALSE

Copies(count, piece) == [i \in 1..count |-> piece]

\* the pieces of one side in the order the loops over the dict place them
PieceList(m, color) ==
    Copies(m.K, Piece("K", color)) \o Copies(m.Q, Piece("Q", color))
        \o Copies(m.R, Piece("R", color)) \o Copies(m.B, Piece("B", color))
        \o Copies(m.N, Piece("N", color)) \o Copies(m.P, Piece("P", color))

\* the squares left after the pieces of todo have popped theirs
AfterPops(all_squares, todo) ==
    SubSeq(all_squares, 1, Len(all_squares) - Min(Len(todo), Len(all_squares)))

\* variant of the definition below
RECURSIVE PlaceWithoutPop(_, _, _)
PlaceWithoutPop(board, all_squares, todo) ==
    IF todo = <<>> \/ all_squares = <<>> THEN board
    ELSE IF Len(todo) = 1
    THEN set_piece_at(board, all_squares[Len(all_squares)], todo[1])
    ELSE LET half == Len(todo) \div 2
         IN  Then(PlaceWithoutPop(board, all_squares, SubSeq(todo, 1, half)),
                  LAMBDA b : PlaceWithoutPop(b, all_squares,
                                SubSeq(todo, half + 1, Len(todo))))

\* the placement loops: each piece goes to all_squares.pop(), and nothing
\* more is placed once all_squares is empty; the pieces are taken half by
\* half, the second half after the pops of the first
RECURSIVE place(_, _, _)
place(board, all_squares, todo) ==
    IF todo = <<>> \/ all_squares = <<>> THEN board
    ELSE IF Len(todo) = 1
    THEN set_piece_at(board, all_squares[Len(all_squares)], todo[1])
    ELSE LET half == Len(todo) \div 2
         IN  Then(place(board, all_squares, SubSeq(todo, 1, half)),
                  LAMBDA b : place(b, AfterPops(all_squares,
                                                SubSeq(todo, 1, half)),
                                   SubSeq(todo, half + 1, Len(todo))))

\* random_board_from_material(white, black), all_squares being the list
\* random.shuffle has left
random_board_from_material(white, black, all_squares) ==
    place(EmptyBoard, all_squares, PieceList(white, WHITE) \o PieceList(black, BLACK))

RECURSIVE Ascending(_, _)
Ascending(lo, squares) ==
    IF lo > 63 THEN <<>>
    ELSE (IF lo \in squares THEN <<lo>> ELSE <<>>) \o Ascending(lo + 1, squares)

Range(seq) == {seq[i] : i \in 1..Len(seq)}

Reverse(seq) == [i \in 1..Len(seq) |-> seq[Len(seq) + 1 - i]]

\* a permutation of chess.SQUARES whose end pops the squares of `first` in
\* their order; the squares before them are in ascending order
Shuffled(first) == Ascending(0, SQUARES \ Range(first)) \o Reverse(first)

SecondRank == <<square(0, 1), square(1, 1), square(2, 1), square(3, 1),
                square(4, 1), square(5, 1), square(6, 1), square(7, 1)>>

\* the outcomes of random.shuffle that are followed: the squares popped
\* first are e1, two bishop squares, eight pawn squares and a king square
Shuffles ==
    {Shuffled(<<square(4, 0)>> \o bishops \o pawns \o <<bk>>) :
        bishops \in {<<square(2, 0), square(4, 2)>>,
                     <<square(2, 0), square(5, 0)>>},
        pawns \in {SecondRank, <<square(0, 0)>> \o Tail(SecondRank)},
        bk \in {square(4, 7), square(3, 0)}}

\* the material classes that are sampled
SampleClasses ==
    {[white |-> Material(1, 0, 0, 2, 0, 8), black |-> Material(1, 0, 0, 0, 0, 0)],
     [white |-> Material(1, 0, 0, 2, 0, 0), black |-> Material(1, 0, 0, 0, 0, 0)],
     [white |-> Material(1, 0, 0, 0, 0, 1), black |-> Material(1, 0, 0, 0, 0, 1)]}

MaxSampleSize == 2

\* a float that is the quotient of two integers, kept exact
Fraction(num, den) == [num |-> num, den |-> den]

SampleInit ==
    \E class \in SampleClasses :
        \E sample_size \in 0..MaxSampleSize :
            /\ smp = [pc |-> "loop", white |-> class.white, black |-> class.black,
                      sample_size |-> sample_size, i |-> 0, legal |-> 0,
                      drawn |-> <<>>]
            /\ cd = Idle
            /\ gen = Idle
            /\ pos = Idle
            /\ est = Idle
            /\ co = Idle
            /\ mg = Idle
            /\ an = Idle
            /\ syn = Idle

\* what a pass leaves in smp: the board drawn and its status, or the fact
\* that making or checking the board raised
Drawn(board, st) ==
    [board |-> board, status |-> st, counted |-> is_valid(st), raised |-> FALSE]

DrawRaised ==
    [board |-> EmptyBoard, status |-> {}, counted |-> FALSE, raised |-> TRUE]

\* variant of the definition below
SampleOnceEscapes ==
    /\ smp.pc = "loop"
    /\ smp.i < smp.sample_size
    /\ \/ \E all_squares \in Shuffles :
             LET board == random_board_from_material(smp.white, smp.black,
                                                     all_squares)
             IN  \E st \in status(board, WHITE) :
                    smp' = [smp EXCEPT
                              !.i = @ + 1,
                              !.legal = IF is_valid(st) THEN @ + 1 ELSE @,
                              !.drawn = Append(@, Drawn(board, st))]
       \/ smp' = [smp EXCEPT !.pc = "raised",
                             !.drawn = Append(@, DrawRaised)]
    /\ UNCHANGED <<cd, gen, pos, est, co, mg, an, syn>>

\* one pass through the body of "for _ in range(sample_size)": a board is
\* drawn and checked, or an Exception is raised on the way and the except
\* clause goes on to the next pass
SampleOnce ==
    /\ smp.pc = "loop"
    /\ smp.i < smp.sample_size
    /\ \/ \E all_squares \in Shuffles :
             LET board == random_board_from_material(smp.white, smp.black,
                                                     all_squares)
             IN  \E st \in status(board, WHITE) :
                    smp' = [smp EXCEPT
                              !.i = @ + 1,
                              !.legal = IF is_valid(st) THEN @ + 1 ELSE @,
                              !.drawn = Append(@, Drawn(board, st))]
       \/ smp' = [smp EXCEPT !.i = @ + 1, !.drawn = Append(@, DrawRaised)]
    /\ UNCHANGED <<cd, gen, pos, est, co, mg, an, syn>>

\* return legal / sample_size if sample_size > 0 else 0.0, kept as a fraction
SampleReturn ==
    /\ smp.pc = "loop"
    /\ smp.i = smp.sample_size
    /\ smp' = [pc |-> "done", white |-> smp.white, black |-> smp.black,
               sample_size |-> smp.sample_size, i |-> smp.i,
               legal |-> smp.legal, drawn |-> smp.drawn,
               ratio |-> IF smp.sample_size > 0
                         THEN Fraction(smp.legal, smp.sample_size)
                         ELSE Fraction(0, 1)]
    /\ UNCHANGED <<cd, gen, pos, est, co, mg, an, syn>>

SampleNext == SampleOnce \/ SampleReturn

SpecSample == SampleInit /\ [][SampleNext]_vars

(***************************************************************************)
(* C9: what the estimator counts against what the rule engine accepts.     *)
(***************************************************************************)
Accepted(drawn, no_promotion) ==
    {i \in 1..Len(drawn) :
        /\ ~drawn[i].raised
        /\ is_position_legal(drawn[i].board, no_promotion, drawn[i].status)}

\* C9: the occupancies test_legality_for_class counts as legal are those
\* is_position_legal accepts (under one setting of no_promotion for the
\* whole sample), and legal is their number.
C9_CountsWhatRuleEngineAccepts ==
    smp.pc = "done" =>
        \E no_promotion \in BOOLEAN :
            /\ \A i \in 1..Len(smp.drawn) :
                  smp.drawn[i].counted <=> i \in Accepted(smp.drawn, no_promotion)
            /\ smp.legal = Cardinality(Accepted(smp.drawn, no_promotion))

(***************************************************************************)
(* simulate_legality.process_material_range: the initial samples and the   *)
(* adaptive extra sample of every class of the slice.  A sample's outcome  *)
(* is the number of boards test_legality_for_class counted.                *)
(***************************************************************************)
INITIAL_SAMPLES == <<1000, 2000>>

MAX_SAMPLE == 128000

REL_THRESHOLD == Fraction(1, 10)

ABS_THRESHOLD == Fraction(1, 1000000)

MaxSliceLen == 2

MaxLevels == 2

\* the counts a sample of n boards is taken to come back with
LegalChoices(n) == {0, 1} \cup {(n * k) \div MaxLevels : k \in 1..MaxLevels}

\* variant of the definition below
LastTwoUnsorted(class_rows) == <<class_rows[1], class_rows[2]>>

\* sorted(class_rows, key=sample_size, reverse=True)[:2] for two rows
LastTwo(class_rows) ==
    IF class_rows[1].sample_size >= class_rows[2].sample_size
    THEN <<class_rows[1], class_rows[2]>>
    ELSE <<class_rows[2], class_rows[1]>>

\* the outcomes of "rel_diff > REL_THRESHOLD and abs_diff > ABS_THRESHOLD"
\* for the ratios x = ratio_max and y = ratio_second, both k / sample_size
\* of an initial sample.  abs_diff is diff / (x.den * y.den); a ratio_second
\* above zero is above the floor 1e-12, and with ratio_second zero rel_diff
\* is abs_diff * 1e12.  A rel_diff of exactly the threshold is left to the
\* rounding of the floats.
NeedsExtraSample(x, y) ==
    LET diff == Abs(x.num * y.den - y.num * x.den)
        abs_above == diff > ((x.den * y.den) * ABS_THRESHOLD.num)
                                \div ABS_THRESHOLD.den
        lhs == REL_THRESHOLD.den * diff
        rhs == REL_THRESHOLD.num * x.den * y.num
    IN  IF diff = 0 THEN {FALSE}
        ELSE IF y.num = 0 THEN {abs_above}
        ELSE IF lhs = rhs THEN {abs_above /\ outcome : outcome \in BOOLEAN}
        ELSE {lhs > rhs /\ abs_above}

ObservationRow(id, sample_size, legal) ==
    [id |-> id, sample_size |-> sample_size,
     legal_ratio |-> IF sample_size > 0 THEN Fraction(legal, sample_size)
                     ELSE Fraction(0, 1)]

\* the table an earlier run over the same classes has left in output_file:
\* the observations of a class whose samples agreed, or of one that took
\* the extra sample
RECURSIVE RecordedTable(_, _)
RecordedTable(slice_len, extra) ==
    IF slice_len = 0 THEN <<>>
    ELSE RecordedTable(slice_len - 1, extra)
         \o (IF extra
             THEN <<ObservationRow(slice_len, INITIAL_SAMPLES[1], 0),
                    ObservationRow(slice_len, INITIAL_SAMPLES[2], 1),
                    ObservationRow(slice_len, 2 * INITIAL_SAMPLES[2], 0)>>
             ELSE <<ObservationRow(slice_len, INITIAL_SAMPLES[1], 0),
                    ObservationRow(slice_len, INITIAL_SAMPLES[2], 0)>>)

\* parsable[i] tells whether eval of the white and black strings of row i
\* of the slice returns; recorded is the content of output_file before the
\* run, None when there is no such file
EstInit ==
    \E slice_len \in 1..MaxSliceLen :
        \E parsable \in [1..slice_len -> BOOLEAN] :
            \E recorded \in {None, Some(RecordedTable(slice_len, FALSE)),
                             Some(RecordedTable(slice_len, TRUE))} :
                /\ est = [pc |-> "row", slice_len |-> slice_len,
                          parsable |-> parsable, recorded |-> recorded,
                          class_id |-> 1, k |-> 1, class_rows |-> <<>>,
                          results |-> <<>>, out_df |-> <<>>,
                          output_file |-> recorded, raised |-> "none"]
                /\ cd = Idle
                /\ gen = Idle
                /\ pos = Idle
                /\ smp = Idle
                /\ co = Idle
                /\ mg = Idle
                /\ an = Idle
                /\ syn = Idle

\* lines 43-46: the next row of the slice; eval of a string that is no
\* Python expression raises, and nothing in process_material_range catches it
EvalMaterial ==
    /\ est.pc = "row"
    /\ est' = IF est.parsable[est.class_id]
              THEN [est EXCEPT !.pc = "initial"]
              ELSE [est EXCEPT !.pc = "raised", !.raised = "SyntaxError"]
    /\ UNCHANGED <<cd, gen, pos, smp, co, mg, an, syn>>

\* one pass through "for sample_size in INITIAL_SAMPLES"
InitialSample ==
    /\ est.pc = "initial"
    /\ \E legal \in LegalChoices(INITIAL_SAMPLES[est.k]) :
          est' = [est EXCEPT
                    !.class_rows = Append(@, ObservationRow(est.class_id,
                                                INITIAL_SAMPLES[est.k], legal)),
                    !.k = @ + 1,
                    !.pc = IF est.k = Len(INITIAL_SAMPLES) THEN "adaptive"
                           ELSE "initial"]
    /\ UNCHANGED <<cd, gen, pos, smp, co, mg, an, syn>>

\* the adaptive extra sample, results.extend(class_rows), and the step to
\* the next row of the slice
AdaptiveSample ==
    /\ est.pc = "adaptive"
    /\ LET last_two == LastTwo(est.class_rows)
           next_sample == Min(last_two[1].sample_size * 2, MAX_SAMPLE)
       IN  \E extra \in NeedsExtraSample(last_two[1].legal_ratio,
                                         last_two[2].legal_ratio) :
              \E legal \in IF extra THEN LegalChoices(next_sample) ELSE {0} :
                 LET class_rows ==
                        IF extra
                        THEN Append(est.class_rows,
                                    ObservationRow(est.class_id, next_sample, legal))
                        ELSE est.class_rows
                     last_class == est.class_id = est.slice_len
                 IN  est' = [est EXCEPT
                               !.results = @ \o class_rows,
                               !.class_rows = <<>>,
                               !.k = 1,
                               !.class_id = IF last_class THEN @ ELSE @ + 1,
                               !.pc = IF last_class THEN "save" ELSE "row"]
    /\ UNCHANGED <<cd, gen, pos, smp, co, mg, an, syn>>

\* out_df = pd.DataFrame(results); out_df.to_parquet(output_file)
SaveResults ==
    /\ est.pc = "save"
    /\ est' = [est EXCEPT !.out_df = est.results,
                          !.output_file = Some(est.results), !.pc = "done"]
    /\ UNCHANGED <<cd, gen, pos, smp, co, mg, an, syn>>

EstNext == EvalMaterial \/ InitialSample \/ AdaptiveSample \/ SaveResults

SpecEst == EstInit /\ [][EstNext]_vars

\* the run goes on as long as it has a step to take
SpecEstFair == SpecEst /\ WF_vars(EstNext)

(***************************************************************************)
(* C10: the stop rule.                                                     *)
(***************************************************************************)
\* rel_std < threshold for an observation of ratio r = legal / n, where
\* rel_std = sqrt(r * (1 - r) / n) / r for r > 0 and 1.0 for r = 0: for
\* r > 0 that is (n - legal) / (n * legal) < threshold^2
RelStdBelow(row, threshold) ==
    /\ row.legal_ratio.num > 0
    /\ threshold.den * threshold.den * (row.legal_ratio.den - row.legal_ratio.num)
          < threshold.num * threshold.num
              * row.legal_ratio.den * row.legal_ratio.num

\* the last observation written for a class
LastObservation(rows, id) ==
    rows[CHOOSE i \in 1..Len(rows) :
            /\ rows[i].id = id
            /\ \A j \in 1..Len(rows) : rows[j].id = id => j <= i]

\* C10: the last observation of every class has a relative standard error
\* below the threshold or a sample size that has reached max_sample (the
\* estimator stops on nothing else, and doubles and samples again
\* otherwise).
C10_LastObservationMeetsStopRule ==
    est.pc = "done" =>
        \A id \in 1..est.slice_len :
            LET last == LastObservation(est.out_df, id)
            IN  \/ RelStdBelow(last, REL_THRESHOLD)
                \/ last.sample_size >= MAX_SAMPLE

(***************************************************************************)
(* run_parallel_legality: the coordinator.  The material table has `total` *)
(* rows, row i (from 0) holding the class of id i + 1; a worker that       *)
(* finishes leaves the table process_material_range writes for its rows.   *)
(***************************************************************************)
MaxTotal == 5

MaxWorkers == 3

\* variant of the definition below
BatchFloor(total, workers) == total \div workers

\* batch = (total + args.workers - 1) // args.workers
batch(total, workers) == (total + workers - 1) \div workers

\* variant of the definition below
out_file_shared(i) == 0

\* out_file = os.path.join(out_dir, f"part_{i}.parquet"): the files of
\* legality_parts are named by the number i
out_file(i) == i

\* the loop that builds jobs, from worker i on
RECURSIVE jobs_from(_, _, _, _)
jobs_from(i, workers, total, size) ==
    IF i >= workers THEN <<>>
    ELSE LET start == i * size
             end == Min(start + size, total)
         IN  (IF start >= end THEN <<>>
              ELSE <<[start |-> start, end |-> end,
                      out_file |-> out_file(i), wid |-> i]>>)
                 \o jobs_from(i + 1, workers, total, size)

\* what process_material_range(df, start, end, output_file) writes when no
\* sampled board is counted: the two initial observations of every class
RECURSIVE PartTable(_, _)
PartTable(start, end) ==
    IF start >= end THEN <<>>
    ELSE <<ObservationRow(start + 1, INITIAL_SAMPLES[1], 0),
           ObservationRow(start + 1, INITIAL_SAMPLES[2], 0)>>
             \o PartTable(start + 1, end)

\* a part file an earlier run left in legality_parts
StaleTable == <<ObservationRow(0, INITIAL_SAMPLES[1], 0)>>

\* pd.concat of the part files read for the results that are ok, in the
\* order of results, which is the order of jobs
RECURSIVE ConcatOk(_, _, _)
ConcatOk(results, parts, j) ==
    IF j > Len(results) THEN <<>>
    ELSE (IF results[j].ok THEN parts[results[j].val][1] ELSE <<>>)
            \o ConcatOk(results, parts, j + 1)

CoordInit ==
    \E total \in 0..MaxTotal :
        \E workers \in 1..MaxWorkers :
          \E stale \in BOOLEAN :
            /\ co = [pc |-> "start", total |-> total, workers |-> workers,
                     jobs |-> <<>>, results |-> <<>>, completed |-> 0,
                     order |-> <<>>,
                     parts |-> [i \in 0..(workers - 1) |->
                                  IF stale THEN Some(StaleTable) ELSE None],
                     final |-> None, raised |-> "none"]
            /\ cd = Idle
            /\ gen = Idle
            /\ pos = Idle
            /\ smp = Idle
            /\ est = Idle
            /\ mg = Idle
            /\ an = Idle
            /\ syn = Idle

\* total, batch and the jobs list; the pool is started on the jobs
BuildJobs ==
    /\ co.pc = "start"
    /\ LET jobs == jobs_from(0, co.workers, co.total, batch(co.total, co.workers))
       IN  co' = [co EXCEPT
                    !.pc = "running",
                    !.jobs = jobs,
                    !.results = [j \in 1..Len(jobs) |->
                                    [started |-> FALSE, ready |-> FALSE]]]
    /\ UNCHANGED <<cd, gen, pos, smp, est, mg, an, syn>>

\* a process of the pool takes a job that waits: worker(job) starts
WorkerStarts ==
    /\ co.pc = "running"
    /\ \E j \in 1..Len(co.jobs) :
          /\ ~co.results[j].started
          /\ co' = [co EXCEPT !.results[j].started = TRUE]
    /\ UNCHANGED <<cd, gen, pos, smp, est, mg, an, syn>>

\* process_material_range writes output_file and worker(job) returns
\* True, output_file; log_result counts it, in the order of completion
WorkerFinishes ==
    /\ co.pc = "running"
    /\ \E j \in 1..Len(co.jobs) :
          /\ co.results[j].started
          /\ ~co.results[j].ready
          /\ co' = [co EXCEPT
                      !.parts[co.jobs[j].out_file] =
                          Some(PartTable(co.jobs[j].start, co.jobs[j].end)),
                      !.results[j] = [started |-> TRUE, ready |-> TRUE,
                                      ok |-> TRUE,
                                      val |-> co.jobs[j].out_file],
                      !.completed = @ + 1,
                      !.order = Append(@, j)]
    /\ UNCHANGED <<cd, gen, pos, smp, est, mg, an, syn>>

\* process_material_range raises: worker(job) returns False, str(e) and no
\* table is written; log_result counts it
WorkerFails ==
    /\ co.pc = "running"
    /\ \E j \in 1..Len(co.jobs) :
          /\ co.results[j].started
          /\ ~co.results[j].ready
          /\ co' = [co EXCEPT
                      !.results[j] = [started |-> TRUE, ready |-> TRUE,
                                      ok |-> FALSE],
                      !.completed = @ + 1,
                      !.order = Append(@, j)]
    /\ UNCHANGED <<cd, gen, pos, smp, est, mg, an, syn>>

\* the merge once every result is ready: pd.concat raises ValueError on an
\* empty list of tables
MergeResults ==
    /\ co.pc = "running"
    /\ \A j \in 1..Len(co.jobs) : co.results[j].ready
    /\ IF \E j \in 1..Len(co.jobs) : co.results[j].ok
       THEN co' = [co EXCEPT
                     !.pc = "done",
                     !.final = Some(ConcatOk(co.results, co.parts, 1))]
       ELSE co' = [co EXCEPT !.pc = "raised", !.raised = "ValueError"]
    /\ UNCHANGED <<cd, gen, pos, smp, est, mg, an, syn>>

CoordNext ==
    BuildJobs \/ WorkerStarts \/ WorkerFinishes \/ WorkerFails \/ MergeResults

SpecCoord == CoordInit /\ [][CoordNext]_vars

(***************************************************************************)
(* C11, C12: the shards.                                                   *)
(***************************************************************************)
CeilDiv(n, k) == CHOOSE c \in 0..n : c * k >= n /\ (c - 1) * k < n

ShardRange(job) == job.start..(job.end - 1)

\* C11: the shard ranges are non-empty ranges [start, end) of at most
\* ceil(n/k) indices, at most k in number, pairwise disjoint, each starting
\* where the one before ends, and their union is 0..n-1.
C11_ShardsPartitionClasses ==
    co.pc \in {"running", "done", "raised"} =>
        /\ Len(co.jobs) <= co.workers
        /\ \A j \in 1..Len(co.jobs) :
              /\ 0 <= co.jobs[j].start
              /\ co.jobs[j].start < co.jobs[j].end
              /\ co.jobs[j].end <= co.total
              /\ co.jobs[j].end - co.jobs[j].start <= CeilDiv(co.total, co.workers)
              /\ j > 1 => co.jobs[j].start = co.jobs[j - 1].end
        /\ \A i \in 1..Len(co.jobs) :
              \A j \in 1..Len(co.jobs) :
                  i /= j => ShardRange(co.jobs[i]) \cap ShardRange(co.jobs[j]) = {}
        /\ UNION {ShardRange(co.jobs[j]) : j \in 1..Len(co.jobs)}
              = 0..(co.total - 1)

\* four classes on three workers: two shards of two, the third worker idle
C11_Witness ==
    /\ co.pc = "running"
    /\ co.total = 4
    /\ co.workers = 3
    /\ Len(co.jobs) = 2
    /\ co.jobs[2] = [start |-> 2, end |-> 4, out_file |-> 1, wid |-> 1]

\* C12: whichever shards fail, all of them included, the merge step
\* completes, and the merged output holds every observation of every shard
\* that did not fail and none of a shard that failed.
C12_MergeSurvivesFailures ==
    (co.pc \in {"done", "raised"} /\ co.jobs /= <<>>) =>
        /\ co.pc = "done"
        /\ \A j \in 1..Len(co.jobs) :
              \A id \in (co.jobs[j].start + 1)..co.jobs[j].end :
                  (\E i \in 1..Len(co.final[1]) : co.final[1][i].id = id)
                      <=> co.results[j].ok

(***************************************************************************)
(* merge_legality_results.merge_parquets (and the same merge in            *)
(* simulate_legality.merge_parquets): the tables of the .parquet files of  *)
(* the input directory, in the order the directory walk yields them, are   *)
(* concatenated and written.  The output file may lie in the input         *)
(* directory, and is then one of the files a second run reads.             *)
(***************************************************************************)
MaxFiles == 2

MaxRows == 2

\* the observations partial tables are made of: two of them share their
\* (id, sample_size)
MergeRows ==
    {ObservationRow(1, 1000, 0), ObservationRow(1, 1000, 1),
     ObservationRow(2, 1000, 0)}

SeqsUpTo(S, n) == UNION {[1..k -> S] : k \in 0..n}

\* variant of the definition below
RECURSIVE ConcatDropFirst(_)
ConcatDropFirst(dfs) ==
    IF dfs = <<>> THEN <<>>
    ELSE IF Len(dfs) = 1
         THEN (IF dfs[1] = <<>> THEN <<>> ELSE Tail(dfs[1]))
         ELSE dfs[1] \o ConcatDropFirst(Tail(dfs))

\* pd.concat(dfs, ignore_index=True)
RECURSIVE concat(_)
concat(dfs) == IF dfs = <<>> THEN <<>> ELSE Head(dfs) \o concat(Tail(dfs))

\* exists tells whether input_dir is there; a directory that is not has no
\* files
MergeInit ==
    \E files \in SeqsUpTo(SeqsUpTo(MergeRows, MaxRows), MaxFiles) :
        \E inside \in BOOLEAN :
            \E exists \in {TRUE} \cup {files /= <<>> \/ inside} :
                /\ mg = [pc |-> "ready", exists |-> exists, files |-> files,
                         inside |-> inside, output |-> None, first |-> None,
                         runs |-> 0, raised |-> "none", exit_status |-> None]
            /\ cd = Idle
            /\ gen = Idle
            /\ pos = Idle
            /\ smp = Idle
            /\ est = Idle
            /\ co = Idle
            /\ an = Idle
            /\ syn = Idle

\* one run of merge_parquets(input_dir, output_file) as the script's main
\* makes it: the exception for a missing directory is not caught and ends
\* the process with status 1, a run that returns ends it with status 0
MergeParquets ==
    /\ mg.pc = "ready"
    /\ mg.runs < 2
    /\ LET files == IF mg.inside /\ mg.output /= None
                    THEN Append(mg.files, mg.output[1])
                    ELSE mg.files
           output == IF files = <<>> THEN mg.output ELSE Some(concat(files))
       IN  mg' = IF ~mg.exists
                 THEN [mg EXCEPT !.pc = "raised",
                                 !.raised = "FileNotFoundError",
                                 !.exit_status = Some(1)]
                 ELSE [mg EXCEPT
                         !.output = output,
                         !.first = IF mg.runs = 0 THEN output ELSE @,
                         !.runs = @ + 1,
                         !.exit_status = Some(0)]
    /\ UNCHANGED <<cd, gen, pos, smp, est, co, an, syn>>

MergeNext == MergeParquets

SpecMerge == MergeInit /\ [][MergeNext]_vars

(***************************************************************************)
(* C13, C14: the merged table.                                             *)
(***************************************************************************)
Key(row) == <<row.id, row.sample_size>>

\* the rows of a written table; no rows when nothing was written
RowsOf(written) == IF written = None THEN <<>> ELSE written[1]

RowSet(table) == {table[i] : i \in 1..Len(table)}

\* the rows of all the input files, in concatenation order
RECURSIVE Flatten(_)
Flatten(tables) ==
    IF tables = <<>> THEN <<>> ELSE tables[1] \o Flatten(Tail(tables))

\* the first row with a key, in a table
FirstWithKey(table, key) ==
    table[CHOOSE i \in 1..Len(table) :
            /\ Key(table[i]) = key
            /\ \A j \in 1..(i - 1) : Key(table[j]) /= key]

\* C13: the merged table has at most one row for each (class_id,
\* sample_size), and that row is the first with the pair in concatenation
\* order.
C13_MergedRowsUniquePerKey ==
    mg.runs = 1 =>
        LET out == RowsOf(mg.output)
        IN  /\ \A i \in 1..Len(out) :
                  \A j \in 1..Len(out) : Key(out[i]) = Key(out[j]) => i = j
            /\ \A i \in 1..Len(out) :
                  out[i] = FirstWithKey(Flatten(mg.files), Key(out[i]))

\* C14: merging a partial table with itself gives the rows of merging it
\* once, and a second run of the merge over the same inputs gives the rows
\* of the first run.
C14_MergeIdempotent ==
    /\ mg.runs = 2 => RowSet(RowsOf(mg.output)) = RowSet(RowsOf(mg.first))
    /\ (mg.runs >= 1 /\ Len(mg.files) = 2 /\ mg.files[1] = mg.files[2]) =>
          RowSet(RowsOf(mg.first)) = RowSet(concat(<<mg.files[1]>>))

\* a table merged with itself, twice, the output lying among the inputs
C14_Witness ==
    /\ mg.runs = 2
    /\ mg.inside
    /\ Len(mg.files) = 2
    /\ mg.files[1] = mg.files[2]
    /\ Len(mg.files[1]) = 2
    /\ Len(RowsOf(mg.output)) = 8

(***************************************************************************)
(* The numbers of the analyzer.  A float that is a quotient of small       *)
(* integers is the Fraction in lowest terms; the float of a large integer  *)
(* is the integer nearest to it with 53 significant bits; a decimal string *)
(* is the sequence of its characters.                                      *)
(***************************************************************************)
RECURSIVE Gcd(_, _)
Gcd(a, b) == IF b = 0 THEN a ELSE Gcd(b, a % b)

\* the float num/den (den > 0)
Float(num, den) ==
    LET g == Gcd(Abs(num), den)
    IN  Fraction(num \div g, den \div g)

FloatAdd(x, y) == Float(x.num * y.den + y.num * x.den, x.den * y.den)

FloatSub(x, y) == Float(x.num * y.den - y.num * x.den, x.den * y.den)

FloatMul(x, y) == Float(x.num * y.num, x.den * y.den)

\* x / y for y > 0
FloatDiv(x, y) == Float(x.num * y.den, x.den * y.num)

\* np.sqrt(x), kept as the number it is the root of
Sqrt(x) == [sqrt |-> x]

DigitChars == <<"0", "1", "2", "3", "4", "5", "6", "7", "8", "9">>

\* the k decimal digits of n < 10^k, most significant first
RECURSIVE Digits(_, _)
Digits(n, k) ==
    IF k = 0 THEN <<>>
    ELSE Append(Digits(n \div 10, k - 1), DigitChars[(n % 10) + 1])

\* the number of decimal digits of n > 0
RECURSIVE NumDigits(_)
NumDigits(n) == IF n < 10 THEN 1 ELSE 1 + NumDigits(n \div 10)

\* the decimal digits of a > 0 followed by tail, six digits a step
RECURSIVE DigitsOf(_, _)
DigitsOf(a, tail) ==
    Then(BigDivMod(a, BigOfInt(10 ^ 6)),
         LAMBDA dm :
            LET r == Limb(dm.r, 1) + 256 * Limb(dm.r, 2)
                     + 65536 * Limb(dm.r, 3)
            IN  IF dm.q = <<>> THEN Digits(r, NumDigits(r)) \o tail
                ELSE DigitsOf(dm.q, Digits(r, 6) \o tail))

\* str(x) of a Python integer
Str(x) ==
    IF x.mag = <<>> THEN <<"0">>
    ELSE (IF x.neg THEN <<"-">> ELSE <<>>) \o DigitsOf(x.mag, <<>>)

\* the integer the digits s[i..j] spell (at most six of them)
RECURSIVE DigitsValue(_, _, _)
DigitsValue(s, i, j) ==
    IF i > j THEN 0
    ELSE 10 * DigitsValue(s, i, j - 1)
         + (CHOOSE d \in 0..9 : DigitChars[d + 1] = s[j])

\* the integer a digit string spells, the digits before position i being
\* acc: six digits a step
RECURSIVE ParseDigits(_, _, _)
ParseDigits(s, i, acc) ==
    IF i > Len(s) THEN acc
    ELSE LET j == Min(i + 5, Len(s))
         IN  Then(BigNorm(BigMulAdd(acc, 10 ^ (j - i + 1),
                                    DigitsValue(s, i, j))),
                  LAMBDA next : ParseDigits(s, j + 1, next))

\* variant of the definition below
SafeToDecimalOne(x) == IntPos(<<1>>)

\* safe_to_decimal of the string of a natural number; the string of
\* anything else is not a number and gives Decimal(1)
safe_to_decimal(x) ==
    IF x = <<>> \/ \E i \in 1..Len(x) : x[i] \notin Range(DigitChars)
    THEN IntPos(<<1>>)
    ELSE IntPos(ParseDigits(x, 1, <<>>))

\* the number of bits of a
BitLength(a) ==
    IF a = <<>> THEN 0
    ELSE 8 * (Len(a) - 1)
         + (CHOOSE b \in 1..8 : a[Len(a)] \div (2 ^ (b - 1)) = 1)

\* 2^e
TwoPow(e) ==
    [i \in 1..(e \div 8 + 1) |-> IF i = e \div 8 + 1 THEN 2 ^ (e % 8) ELSE 0]

\* float(x) of a natural number: round to 53 bits, ties to even
Float64(a) ==
    IF BitLength(a) <= 53 THEN a
    ELSE LET e == BitLength(a) - 53
         IN  Then(BigDivMod(a, TwoPow(e)), LAMBDA dm :
             Then(BigCmp(BigMulSmall(dm.r, 2), TwoPow(e)), LAMBDA c :
             Then(IF c > 0 \/ (c = 0 /\ dm.q[1] % 2 = 1)
                  THEN BigAddSmall(dm.q, 1) ELSE dm.q, LAMBDA m :
             [i \in 1..(e \div 8) |-> 0] \o BigMulSmall(m, 2 ^ (e % 8)))))

(***************************************************************************)
(* analyze.main.  A table is its column names and its rows, a row holding  *)
(* one value for each column; reading a column a table does not have       *)
(* raises KeyError.  The material table is the one material_classes.main   *)
(* writes or the one the docstring of analyze.py names; the result table   *)
(* is the one process_material_range writes or the one of the docstring.   *)
(***************************************************************************)
EnumerateColumns == <<"id", "white", "black", "total_pieces", "diagrams">>

PositionsColumns == <<"id", "white_material", "black_material", "positions">>

SamplerColumns == <<"id", "sample_size", "legal_ratio">>

ValidRatioColumns == <<"id", "sample_size", "valid_ratio">>

HasColumn(df, name) == name \in Range(df.columns)

\* row[name] for a row of df
Get(df, row, name) ==
    row[CHOOSE i \in 1..Len(df.columns) : df.columns[i] = name]

\* the classes of the material table: the kings alone, a queen added, and
\* the full set of both sides
AnalyzedClasses ==
    <<[white |-> Material(1, 0, 0, 0, 0, 0), black |-> Material(1, 0, 0, 0, 0, 0)],
      [white |-> Material(1, 1, 0, 0, 0, 0), black |-> Material(1, 0, 0, 0, 0, 0)],
      [white |-> StandardLimits, black |-> StandardLimits]>>

\* the records of material_classes.main for these classes, under the given
\* column names
MaterialTable(columns) ==
    [columns |-> columns,
     rows |-> [i \in 1..Len(AnalyzedClasses) |->
        LET w == AnalyzedClasses[i].white
            b == AnalyzedClasses[i].black
            diagrams == Then(count_diagrams(w, b).result,
                             LAMBDA count : Str(count))
        IN  IF Len(columns) = 5
            THEN <<i, w, b, PieceTotal(w, b), diagrams>>
            ELSE <<i, w, b, diagrams>>]]

\* the observations a result table is made of
AnalyzedObservations ==
    {ObservationRow(1, 1000, 500), ObservationRow(1, 2000, 400),
     ObservationRow(1, 2000, 2000), ObservationRow(2, 1000, 0)}

MaxObservations == 3

ResultTable(columns, observations) ==
    [columns |-> columns,
     rows |-> [i \in 1..Len(observations) |->
        <<observations[i].id, observations[i].sample_size,
          observations[i].legal_ratio>>]]

RECURSIVE SumFloats(_)
SumFloats(s) ==
    IF s = <<>> THEN Float(0, 1) ELSE FloatAdd(Head(s), SumFloats(Tail(s)))

\* variant of the definition below
LargestSampleStats(ratios, weights) ==
    LET mask == {i \in 1..Len(ratios) : weights[i] > 0}
    IN  IF mask = {} THEN [wm |-> Float(1, 1), rel_std |-> Sqrt(Float(0, 1))]
        ELSE [wm |-> ratios[CHOOSE i \in mask :
                                \A j \in mask : weights[j] <= weights[i]],
              rel_std |-> Sqrt(Float(0, 1))]

\* weighted_stats_from_group; the ratios hold no NaN, main has filled them
weighted_stats_from_group(ratios, weights) ==
    LET mask == SelectSeq([i \in 1..Len(ratios) |-> i],
                          LAMBDA i : weights[i] > 0)
    IN  IF mask = <<>> THEN [wm |-> Float(1, 1), rel_std |-> Sqrt(Float(0, 1))]
        ELSE LET r == [k \in 1..Len(mask) |-> ratios[mask[k]]]
                 w == [k \in 1..Len(mask) |-> Float(weights[mask[k]], 1)]
                 total == SumFloats(w)
                 wm == FloatDiv(SumFloats([k \in 1..Len(r) |->
                                    FloatMul(r[k], w[k])]), total)
                 wvar == FloatDiv(SumFloats([k \in 1..Len(r) |->
                            FloatMul(FloatMul(FloatSub(r[k], wm),
                                              FloatSub(r[k], wm)), w[k])]),
                                  total)
             IN  [wm |-> wm,
                  rel_std |-> IF wm.num > 0
                              THEN Sqrt(FloatDiv(wvar, FloatMul(wm, wm)))
                              ELSE Sqrt(Float(0, 1))]

AnalyzeInit ==
    \E material \in {None, Some(MaterialTable(EnumerateColumns)),
                     Some(MaterialTable(PositionsColumns))} :
        \E result \in {None}
                \cup {Some(ResultTable(columns, observations)) :
                        columns \in {SamplerColumns, ValidRatioColumns},
                        observations \in
                            SeqsUpTo(AnalyzedObservations, MaxObservations)} :
            /\ an = [pc |-> "start", material |-> material,
                     result |-> result, df_mat |-> None, df_res |-> None,
                     stats_rows |-> <<>>, df_final |-> <<>>,
                     output |-> None, raised |-> "none",
                     exit_status |-> None]
            /\ cd = Idle
            /\ gen = Idle
            /\ pos = Idle
            /\ smp = Idle
            /\ est = Idle
            /\ co = Idle
            /\ mg = Idle
            /\ syn = Idle

\* lines 65-78: the two files are read; without the material file main
\* logs an error and returns, which ends the process with status 0, as
\* does the return at the end of main (an exception that leaves main ends
\* it with status 1); without the result file the results are an empty
\* table
LoadTables ==
    /\ an.pc = "start"
    /\ an' = IF an.material = None
             THEN [an EXCEPT !.pc = "returned", !.exit_status = Some(0)]
             ELSE [an EXCEPT
                     !.pc = "stats",
                     !.df_mat = an.material,
                     !.df_res = IF an.result = None
                                THEN Some([columns |-> ValidRatioColumns,
                                           rows |-> <<>>])
                                ELSE an.result]
    /\ UNCHANGED <<cd, gen, pos, smp, est, co, mg, syn>>

\* lines 86-95: the statistics of the next class of the material table
WeightedStats ==
    /\ an.pc = "stats"
    /\ Len(an.stats_rows) < Len(an.df_mat[1].rows)
    /\ LET df_mat == an.df_mat[1]
           df_res == an.df_res[1]
           cid == Get(df_mat, df_mat.rows[Len(an.stats_rows) + 1], "id")
           grp == SelectSeq(df_res.rows,
                            LAMBDA row : Get(df_res, row, "id") = cid)
       IN  IF Len(df_res.rows) = 0 \/ grp = <<>>
           THEN an' = [an EXCEPT !.stats_rows = Append(@,
                        [id |-> cid, weighted_mean_ratio |-> Float(1, 1),
                         relative_stddev |-> Sqrt(Float(0, 1)),
                         total_weight |-> 0])]
           ELSE IF ~HasColumn(df_res, "valid_ratio")
           THEN an' = [an EXCEPT !.pc = "raised", !.raised = "KeyError",
                                 !.exit_status = Some(1)]
           ELSE LET ratios == [k \in 1..Len(grp) |->
                        LET x == Get(df_res, grp[k], "valid_ratio")
                        IN  Float(x.num, x.den)]
                    weights == [k \in 1..Len(grp) |->
                        Get(df_res, grp[k], "sample_size")]
                    stats == weighted_stats_from_group(ratios, weights)
                IN  an' = [an EXCEPT !.stats_rows = Append(@,
                        [id |-> cid, weighted_mean_ratio |-> stats.wm,
                         relative_stddev |-> stats.rel_std,
                         total_weight |-> SumSeq(weights)])]
    /\ UNCHANGED <<cd, gen, pos, smp, est, co, mg, syn>>

\* lines 97-119: the statistics are joined to the classes and the estimate
\* of each class is its count as a float times its ratio, kept as the
\* quotient it is the nearest float of
FastSum ==
    /\ an.pc = "stats"
    /\ Len(an.stats_rows) = Len(an.df_mat[1].rows)
    /\ LET df_mat == an.df_mat[1]
       IN  IF ~HasColumn(df_mat, "positions")
           THEN an' = [an EXCEPT !.pc = "raised", !.raised = "KeyError",
                                 !.exit_status = Some(1)]
           ELSE an' = [an EXCEPT
                !.pc = "summed",
                !.df_final = [i \in 1..Len(df_mat.rows) |->
                    LET stats == an.stats_rows[i]
                    IN  Then(safe_to_decimal(Get(df_mat, df_mat.rows[i],
                                                 "positions")),
                          LAMBDA positions_decimal :
                        Then(Float64(positions_decimal.mag),
                          LAMBDA positions_float :
                        [class |-> df_mat.rows[i],
                         id |-> stats.id,
                         weighted_mean_ratio |-> stats.weighted_mean_ratio,
                         relative_stddev |-> stats.relative_stddev,
                         positions_decimal |-> Str(positions_decimal),
                         weighted_estimated_legal |->
                            [num |-> BigMulSmall(positions_float,
                                        stats.weighted_mean_ratio.num),
                             den |-> stats.weighted_mean_ratio.den],
                         total_weight |-> stats.total_weight]))]]
    /\ UNCHANGED <<cd, gen, pos, smp, est, co, mg, syn>>

\* lines 121-133: the analysis is written
SaveAnalysis ==
    /\ an.pc = "summed"
    /\ an' = [an EXCEPT !.pc = "done", !.output = Some(an.df_final),
                        !.exit_status = Some(0)]
    /\ UNCHANGED <<cd, gen, pos, smp, est, co, mg, syn>>

AnalyzeNext == LoadTables \/ WeightedStats \/ FastSum \/ SaveAnalysis

SpecAnalyze == AnalyzeInit /\ [][AnalyzeNext]_vars

(***************************************************************************)
(* C15, C16, C17: what the analyzer reports for a class.                   *)
(***************************************************************************)
\* the observations of the result file for a class, in file order
ObservationsOf(cid) ==
    IF an.result = None THEN <<>>
    ELSE SelectSeq(an.result[1].rows, LAMBDA row : row[1] = cid)

\* r * (1 - r) / n of an observation <<id, n, r>>: the square of its
\* binomial standard error
StdErrorSquared(row) ==
    Float(row[3].num * (row[3].den - row[3].num),
          row[3].den * row[3].den * row[2])

FloatLess(x, y) == x.num * y.den < y.num * x.den

\* the observation with the largest sample size, then the smallest
\* standard error, then the earliest
BestObservation(grp) ==
    grp[CHOOSE i \in 1..Len(grp) :
          \A j \in (1..Len(grp)) \ {i} :
              \/ grp[j][2] < grp[i][2]
              \/ /\ grp[j][2] = grp[i][2]
                 /\ \/ FloatLess(StdErrorSquared(grp[i]),
                                 StdErrorSquared(grp[j]))
                    \/ /\ StdErrorSquared(grp[i]) = StdErrorSquared(grp[j])
                       /\ i < j]

\* C15: for a class with observations the analyzer's ratio is the
\* legal_ratio of the observation with the largest sample_size (then the
\* smallest std_error, then the earliest), and the sample size it reports
\* is that observation's.
C15_RatioOfLargestSample ==
    \A k \in 1..Len(an.stats_rows) :
        LET stats == an.stats_rows[k]
            grp == ObservationsOf(stats.id)
        IN  grp /= <<>> =>
                LET best == BestObservation(grp)
                IN  /\ stats.weighted_mean_ratio
                         = Float(best[3].num, best[3].den)
                    /\ stats.total_weight = best[2]

\* a * 2^53
TimesTwoPow53(a) ==
    IF a = <<>> THEN <<>> ELSE <<0, 0, 0, 0, 0, 0>> \o BigMulSmall(a, 32)

\* x is count or, for a count of more than 53 bits, a float nearest to it
NearestFloat(x, count) ==
    IF BitLength(count) <= 53 THEN x = count
    ELSE LET diff == IF BigCmp(x, count) >= 0 THEN BigSub(x, count)
                     ELSE BigSub(count, x)
         IN  BigCmp(TimesTwoPow53(BigMulSmall(diff, 2)), count) <= 0

\* C16: a class with no observations (not in the result table, or the
\* table missing or empty) gets ratio 1.0, sample size 0 and uncertainty 0,
\* and the analysis gives it its diagram count, as a string and (as a
\* float) as its estimated legal count.
C16_UnobservedClassFullyLegal ==
    /\ \A k \in 1..Len(an.stats_rows) :
          LET stats == an.stats_rows[k]
          IN  ObservationsOf(stats.id) = <<>> =>
                  /\ stats.weighted_mean_ratio = Float(1, 1)
                  /\ stats.total_weight = 0
                  /\ stats.relative_stddev = Sqrt(Float(0, 1))
    /\ \A k \in 1..Len(an.df_final) :
          LET row == an.df_final[k]
              count == count_diagrams(AnalyzedClasses[k].white,
                                      AnalyzedClasses[k].black).result
          IN  ObservationsOf(row.id) = <<>> =>
                  /\ row.positions_decimal = Str(count)
                  /\ row.weighted_estimated_legal.den = 1
                  /\ NearestFloat(row.weighted_estimated_legal.num,
                                  count.mag)

\* an analysis written from a result file that has observations of the
\* first class and none of the second and the third, whose count is above
\* 2^53
C16_Witness ==
    /\ an.pc = "done"
    /\ ObservationsOf(1) /= <<>>
    /\ ObservationsOf(2) = <<>>
    /\ an.output[1][1].total_weight > 0
    /\ an.output[1][2].total_weight = 0
    /\ an.output[1][2].weighted_estimated_legal.num = BigOfInt(249984)
    /\ an.output[1][3].total_weight = 0
    /\ BitLength(an.output[1][3].weighted_estimated_legal.num) > 53

\* C17: the analyzer reads from the material table and from the
\* observation table only columns that material_classes.main and
\* process_material_range write, so that no read of a column fails on the
\* tables of the pipeline.
C17_StagesAgreeOnColumns ==
    (/\ an.material /= None
     /\ an.material[1].columns = EnumerateColumns
     /\ an.result /= None
     /\ an.result[1].columns = SamplerColumns) => an.raised /= "KeyError"

(***************************************************************************)
(* C18: the observations process_material_range writes.                    *)
(***************************************************************************)
\* C18: every observation written has sample_size > 0, a legal_ratio that
\* is legal_count / sample_size with 0 <= legal_count <= sample_size, and a
\* std_error that is >= 0.
C18_ObservationsWellFormed ==
    \A i \in 1..Len(est.out_df) :
        LET row == est.out_df[i]
        IN  /\ row.sample_size > 0
            /\ row.legal_ratio.den = row.sample_size
            /\ row.legal_ratio.num \in 0..row.sample_size
            /\ "std_error" \in DOMAIN row
            /\ row.std_error.num >= 0

(***************************************************************************)
(* C19: the classes of a run without max_classes.                          *)
(***************************************************************************)
\* the configurations of one side within the limits
SidesWithin(limits) ==
    [K : {1}, Q : 0..limits.Q, R : 0..limits.R, B : 0..limits.B,
     N : 0..limits.N, P : 0..limits.P]

\* the pairs of configurations with at most 32 pieces in all
PairsWithin(limits) ==
    {c \in [white : SidesWithin(limits), black : SidesWithin(limits)] :
        SideTotal(c.white) + SideTotal(c.black) <= 32}

\* C19: without max_classes, generate_material_classes returns the pairs of
\* configurations of a side within the limits that have at most 32 pieces
\* in all, each of them once; when no pair within the limits has more, they
\* are the square of the product of (limit + 1), 64 for Q1 R1 B0 N0 P1.
C19_AllPairsOnce ==
    (gen.pc = "done" /\ gen.max_classes = None) =>
        /\ Range(gen.classes) = PairsWithin(gen.limits)
        /\ \A i \in 1..Len(gen.classes) :
              \A j \in 1..Len(gen.classes) :
                  gen.classes[i] = gen.classes[j] => i = j
        /\ 2 * SideTotal(gen.limits) <= 32 =>
              Len(gen.classes) = Cardinality(SidesWithin(gen.limits))
                                    * Cardinality(SidesWithin(gen.limits))
        /\ gen.limits = TestLimits => Len(gen.classes) = 64

\* the run over the limits of 16 pawns has ended, the 3 pairs of more than
\* 32 pieces among its 289 left out
C19_Witness ==
    /\ gen.pc = "done"
    /\ gen.max_classes = None
    /\ gen.limits = PawnLimits
    /\ Len(gen.classes) = 286

(***************************************************************************)
(* random_board_from_material, loop by loop.  The compositions are any     *)
(* two dicts of counts; random.shuffle leaves one of the permutations      *)
(* followed for the sampler or a permutation i -> a * i + c (mod 64).      *)
(***************************************************************************)
SynthMaterials ==
    {Material(0, 0, 0, 0, 0, 0), Material(1, 0, 0, 0, 0, 0),
     StandardLimits, Material(1, 9, 10, 10, 2, 0), PromotionLimits}

Affine(a, c) == [i \in 1..64 |-> (a * (i - 1) + c) % 64]

SynthShuffles ==
    Shuffles \cup {Affine(a, c) : a \in {1, 5, 27, 63}, c \in {0, 7, 32, 63}}

SynthInit ==
    \E white \in SynthMaterials :
        \E black \in SynthMaterials :
            /\ syn = [pc |-> "start", white |-> white, black |-> black,
                      shuffled |-> <<>>, all_squares |-> <<>>,
                      board |-> EmptyBoard]
            /\ cd = Idle
            /\ gen = Idle
            /\ pos = Idle
            /\ smp = Idle
            /\ est = Idle
            /\ co = Idle
            /\ mg = Idle
            /\ an = Idle

\* lines 18-20: all_squares = list(chess.SQUARES); random.shuffle(all_squares)
ShuffleSquares ==
    /\ syn.pc = "start"
    /\ \E all_squares \in SynthShuffles :
          syn' = [syn EXCEPT !.pc = "white", !.shuffled = all_squares,
                             !.all_squares = all_squares]
    /\ UNCHANGED <<cd, gen, pos, smp, est, co, mg, an>>

\* lines 31-37: the loop over white.items()
PlaceWhite ==
    /\ syn.pc = "white"
    /\ LET todo == PieceList(syn.white, WHITE)
       IN  syn' = [syn EXCEPT
                     !.pc = "black",
                     !.board = place(syn.board, syn.all_squares, todo),
                     !.all_squares = AfterPops(syn.all_squares, todo)]
    /\ UNCHANGED <<cd, gen, pos, smp, est, co, mg, an>>

\* lines 39-47: the loop over black.items(), and the return
PlaceBlack ==
    /\ syn.pc = "black"
    /\ LET todo == PieceList(syn.black, BLACK)
       IN  syn' = [syn EXCEPT
                     !.pc = "returned",
                     !.board = place(syn.board, syn.all_squares, todo),
                     !.all_squares = AfterPops(syn.all_squares, todo)]
    /\ UNCHANGED <<cd, gen, pos, smp, est, co, mg, an>>

SynthNext == ShuffleSquares \/ PlaceWhite \/ PlaceBlack

SpecSynth == SynthInit /\ [][SynthNext]_vars

(***************************************************************************)
(* C20: the board of a composition.                                        *)
(***************************************************************************)
\* the squares popped so far, in the order they were popped
Popped == Reverse(SubSeq(syn.shuffled, Len(syn.all_squares) + 1,
                         Len(syn.shuffled)))

\* C20: for a composition of at most 64 pieces the board returned holds,
\* for each colour and piece type, as many pieces as requested and no
\* others, on pairwise distinct squares, whatever the permutation.
C20_BoardHoldsRequestedMaterial ==
    (syn.pc = "returned" /\ PieceTotal(syn.white, syn.black) <= 64) =>
        /\ \A i \in 1..Len(Pieces) :
              /\ Cardinality(pieces(syn.board, Pieces[i], WHITE))
                    = Values(syn.white)[i]
              /\ Cardinality(pieces(syn.board, Pieces[i], BLACK))
                    = Values(syn.black)[i]
        /\ Cardinality({sq \in SQUARES : syn.board[sq] /= <<>>})
              = PieceTotal(syn.white, syn.black)
        /\ Len(Popped) = PieceTotal(syn.white, syn.black)
        /\ \A i \in 1..Len(Popped) :
              \A j \in 1..Len(Popped) : Popped[i] = Popped[j] => i = j
        /\ \A i \in 1..Len(Popped) : syn.board[Popped[i]] /= <<>>

\* a board of 64 pieces from a permutation that is not the identity
C20_Witness ==
    /\ syn.pc = "returned"
    /\ PieceTotal(syn.white, syn.black) = 64
    /\ syn.shuffled = Affine(27, 7)
    /\ syn.all_squares = <<>>
    /\ syn.board[Affine(27, 7)[64]] = Piece("K", WHITE)

(***************************************************************************)
(* C21, C23, C25: a run of process_material_range over a slice.            *)
(***************************************************************************)
\* the rows of a table for a class, in their order
RowsOfClass(table, id) == SelectSeq(table, LAMBDA row : row.id = id)

\* the observations the run has taken so far: one for each call of
\* test_legality_for_class
Sampled == est.results \o est.class_rows

\* C21: a run over classes whose observations are already in the output
\* file draws no (class, sample_size) that is recorded there, and when it
\* has ended the recorded observations are still in the file, unchanged.
C21_RerunSkipsRecorded ==
    est.recorded /= None =>
        /\ \A i \in 1..Len(Sampled) :
              \A j \in 1..Len(est.recorded[1]) :
                  Key(Sampled[i]) /= Key(est.recorded[1][j])
        /\ est.pc = "done" =>
              Range(est.recorded[1]) \subseteq Range(est.output_file[1])

\* C23: when the run has ended, the rows whose material strings parse have
\* their observations in the partial table, those before a row that does
\* not parse and those after it, and only the rows that do not parse have
\* none.
C23_OnlyBadRowSkipped ==
    est.pc \in {"done", "raised"} =>
        \A id \in 1..est.slice_len :
            est.parsable[id] <=> RowsOfClass(est.out_df, id) /= <<>>

\* the sample sizes of a class are strictly increasing, none above
\* MAX_SAMPLE, and at most one more than the initial ones
SizesBounded(table, id) ==
    LET rows == RowsOfClass(table, id)
    IN  /\ \A i \in 1..Len(rows) : rows[i].sample_size <= MAX_SAMPLE
        /\ \A i \in 1..(Len(rows) - 1) :
              rows[i].sample_size < rows[i + 1].sample_size
        /\ Len(rows) <= Len(INITIAL_SAMPLES) + 1

C22_RaisingSampleCountsAsIllegal ==
    /\ smp.pc \in {"loop", "done"}
    /\ \A i \in 1..Len(smp.drawn) : smp.drawn[i].raised => ~smp.drawn[i].counted
    /\ smp.legal = Cardinality({i \in 1..Len(smp.drawn) : smp.drawn[i].counted})
    /\ Len(smp.drawn) = smp.i
    /\ smp.pc = "done" =>
          /\ Len(smp.drawn) = smp.sample_size
          /\ smp.sample_size > 0 =>
                smp.ratio = Fraction(smp.legal, smp.sample_size)

\* a sample of two whose first pass raised and whose second board was
\* counted
C22_Witness ==
    /\ smp.pc = "done"
    /\ smp.sample_size = 2
    /\ smp.drawn[1].raised
    /\ smp.drawn[2].counted
    /\ smp.ratio = Fraction(1, 2)

(***************************************************************************)
(* C24: a required input that is missing.                                  *)
(***************************************************************************)
\* C24: when the material class table is missing, analyze ends with a
\* status other than 0 and writes no analysis.
C24_MissingInputAborts ==
    (an.material = None /\ an.pc /= "start") =>
        /\ an.exit_status /= None
        /\ an.exit_status /= Some(0)
        /\ an.output = None

(***************************************************************************)
(* C26: the order in which the shards start and finish.                    *)
(***************************************************************************)
\* the observations of the shards that did not fail, shard after shard in
\* the order of the class ranges
RECURSIVE MergedInJobOrder(_)
MergedInJobOrder(j) ==
    IF j > Len(co.jobs) THEN <<>>
    ELSE (IF co.results[j].ok
          THEN PartTable(co.jobs[j].start, co.jobs[j].end)
          ELSE <<>>)
            \o MergedInJobOrder(j + 1)

\* C26: no two shards write the same part file, the part file of a shard
\* that finished holds that shard's observations whatever finished before or
\* after it, and the merged table is the observations of the shards that
\* did not fail in the order of the class ranges, whatever the order in
\* which the shards started and finished.
C26_MergeIndependentOfOrder ==
    co.pc \in {"running", "done", "raised"} =>
        /\ \A i \in 1..Len(co.jobs) :
              \A j \in 1..Len(co.jobs) :
                  i /= j => co.jobs[i].out_file /= co.jobs[j].out_file
        /\ \A j \in 1..Len(co.jobs) :
              (co.results[j].ready /\ co.results[j].ok) =>
                  co.parts[co.jobs[j].out_file]
                      = Some(PartTable(co.jobs[j].start, co.jobs[j].end))
        /\ co.pc = "done" => co.final = Some(MergedInJobOrder(1))

\* three shards that finished last, first, second, over part files an
\* earlier run left: the merged table is in the order of the class ranges
C26_Witness ==
    /\ co.pc = "done"
    /\ Len(co.jobs) = 3
    /\ co.order = <<3, 1, 2>>
    /\ \A j \in 1..3 : co.results[j].ok
    /\ co.final = Some(PartTable(0, 3))

====
